---------------------------- MODULE Spec2Model ----------------------------
(***************************************************************************)
(* toyser: a markup parser (dom.rs), a stylesheet parser (css.rs) and the  *)
(* cascade (style.rs).  A String is a sequence of bytes; a byte is written *)
(* as a one-character TLA+ string, and the two bytes of the one multi-byte *)
(* character of the alphabet are LEAD and CONT.  A char is named by its    *)
(* first byte.  Both parsers are run one loop iteration per step, with the *)
(* call stack of the recursive descent kept in `stack`.                    *)
(***************************************************************************)
EXTENDS Integers, Sequences, FiniteSets, TLC

VARIABLES
    mode,          \* which entry point runs: "dom", "css" or "style"
    input,         \* Parser.input
    pos,           \* Parser.pos, a byte offset
    pc,            \* the loop the parser is at the head of, or "done" / "panic"
    stack,         \* dom: one frame per active parse_nodes call
    rules,         \* css: parse_rules' `rules`
    selectors,     \* css: parse_selectors' `selectors`
    selector,      \* css: parse_simple_selector's `selector`
    declarations,  \* css: parse_declarations' `declarations`
    iterStart,     \* css: per loop, pos at the start of its previous iteration
    colorAt,       \* css: the offsets at which parse_color was entered
    root,          \* style: the Node tree given to style_tree
    stylesheet,    \* style: the StyleSheet given to style_tree
    matched,       \* style: what matching_rules returned for each element
    result         \* what the entry point returned, NONE before

vars == <<mode, input, pos, pc, stack, rules, selectors, selector,
          declarations, iterStart, colorAt, root, stylesheet, matched, result>>

NONE == "none"
PANIC == "panic"

\* ------------------------------------------------------------- bounds
MaxTok == 4

\* -------------------------------------------------------------- bytes
LEAD == "C3"
CONT == "A9"
Multibyte == <<LEAD, CONT>>

Whitespace == {" "}
Digits == {"1"}
TagNameChars == {"a", "g", "i", "k", "p", "x", "P", "X", "1"}
IdentifierChars == TagNameChars \cup {"-", "_", "%"}
Chars == IdentifierChars \cup Whitespace \cup
         {"<", ">", "/", "=", "\"", "'", "#", ".", "*", ",", "{", "}", ":", ";", "+", LEAD}

\* char::len_utf8 of the char whose first byte is b
Width(b) == IF b = LEAD THEN 2 ELSE 1

\* String::push(ch)
CharBytes(ch) == IF ch = LEAD THEN Multibyte ELSE <<ch>>

\* str::is_char_boundary
IsCharBoundary(s, p) ==
    \/ p = 0
    \/ p = Len(s)
    \/ p > 0 /\ p < Len(s) /\ s[p + 1] # CONT

\* &self.input[self.pos..] does not panic
Sliceable(s, p) == p <= Len(s) /\ IsCharBoundary(s, p)

eof(s, p) == p >= Len(s)

\* self.input[self.pos..].starts_with(lit), the slice known not to panic
StartsWith(s, p, lit) ==
    /\ p + Len(lit) <= Len(s)
    /\ \A i \in 1..Len(lit) : s[p + i] = lit[i]

\* self.input[self.pos..].chars().next()
PeekChar(s, p) == IF p < Len(s) THEN s[p + 1] ELSE NONE

\* consume_char: the second item of char_indices gives the step, and 1 is
\* taken when there is no second char.
ConsumeChar(s, p) ==
    IF ~Sliceable(s, p) \/ eof(s, p)
    THEN [ok |-> FALSE, ch |-> NONE, pos |-> p]
    ELSE LET cur_char == s[p + 1]
             has_second == p + Width(cur_char) < Len(s)
             next_pos == IF has_second THEN Width(cur_char) ELSE 1
         IN  [ok |-> TRUE, ch |-> cur_char, pos |-> p + next_pos]

\* consume_while(|c| c \in S)
RECURSIVE ConsumeWhileFrom(_, _, _, _)
ConsumeWhileFrom(s, p, S, acc) ==
    IF eof(s, p) THEN [ok |-> TRUE, str |-> acc, pos |-> p]
    ELSE IF ~Sliceable(s, p) THEN [ok |-> FALSE, str |-> acc, pos |-> p]
    ELSE IF PeekChar(s, p) \notin S THEN [ok |-> TRUE, str |-> acc, pos |-> p]
    ELSE LET c == ConsumeChar(s, p)
         IN  ConsumeWhileFrom(s, c.pos, S, acc \o CharBytes(c.ch))

ConsumeWhile(s, p, S) == ConsumeWhileFrom(s, p, S, <<>>)

\* assert!(self.consume_char() == c): the char is consumed, then compared
Expect(s, p, c) ==
    LET r == ConsumeChar(s, p) IN [ok |-> r.ok /\ r.ch = c, pos |-> r.pos]

\* ------------------------------------------------------------- inputs
\* The string of the tokens toks[1] .. toks[n], one after the other
RECURSIVE Concat(_, _)
Concat(toks, n) == IF n = 0 THEN <<>> ELSE Concat(toks, n - 1) \o toks[n]

\* s is up to MaxTok tokens of T, one after the other.
TokenString(s, T) ==
    \E n \in 0..MaxTok : \E toks \in [1..n -> T] : s = Concat(toks, n)

\* ---------------------------------------------------------------- dom
text(data) ==
    [node_type |-> "Text", data |-> data, tag_name |-> <<>>,
     attributes |-> {}, children |-> <<>>]

elem(name, attrs, children) ==
    [node_type |-> "Element", data |-> <<>>, tag_name |-> name,
     attributes |-> attrs, children |-> children]

\* HashMap::insert on a map kept as a set of <<key, value>> pairs
MapInsert(m, k, v) == {e \in m : e[1] # k} \cup {<<k, v>>}

MapHas(m, k) == \E e \in m : e[1] = k

MapGet(m, k) == (CHOOSE e \in m : e[1] = k)[2]

MapKeys(m) == {e[1] : e \in m}

HtmlTag == <<"h", "t", "m", "l">>

\* One activation of parse_nodes: the element being parsed around it (none
\* for the call made by parse), its `nodes`, and the offsets at which the
\* previous iteration of its loop and of the parse_attrs loop began.
Frame(tag, attrs) ==
    [tag_name |-> tag, attributes |-> attrs, nodes |-> <<>>,
     nodesStart |-> -1, attrsStart |-> -1]

Top == stack[Len(stack)]

SetTop(f) == [stack EXCEPT ![Len(stack)] = f]

DomPanic(p) ==
    /\ pc' = PANIC
    /\ pos' = p
    /\ UNCHANGED <<stack, result>>

DomFrame == UNCHANGED <<mode, input, rules, selectors, selector, declarations,
                        iterStart, colorAt, root, stylesheet, matched>>

\* parse_tag_name
ParseTagName(s, p) == ConsumeWhile(s, p, TagNameChars)

\* parse_attr_value
ParseAttrValue(s, p) ==
    LET open_quote == ConsumeChar(s, p) IN
    IF ~open_quote.ok \/ open_quote.ch \notin {"\"", "'"}
    THEN [ok |-> FALSE, pos |-> open_quote.pos, value |-> <<>>]
    ELSE LET value == ConsumeWhile(s, open_quote.pos, Chars \ {open_quote.ch}) IN
         IF ~value.ok THEN [ok |-> FALSE, pos |-> value.pos, value |-> <<>>]
         ELSE LET close == Expect(s, value.pos, open_quote.ch)
              IN  [ok |-> close.ok, pos |-> close.pos, value |-> value.str]

\* parse_attr
ParseAttr(s, p) ==
    LET name == ParseTagName(s, p) IN
    IF ~name.ok THEN [ok |-> FALSE, pos |-> name.pos, name |-> <<>>, value |-> <<>>]
    ELSE LET eq == Expect(s, name.pos, "=") IN
         IF ~eq.ok THEN [ok |-> FALSE, pos |-> eq.pos, name |-> <<>>, value |-> <<>>]
         ELSE LET v == ParseAttrValue(s, eq.pos)
              IN  [ok |-> v.ok, pos |-> v.pos, name |-> name.str, value |-> v.value]

\* A variant of ParseWrap for comparison: the root is always wrapped.
ParseWrapAlways(nodes) == elem(HtmlTag, {}, nodes)

\* parse, after parse_nodes has returned `nodes`
ParseWrap(nodes) ==
    IF Len(nodes) = 1 THEN nodes[1] ELSE elem(HtmlTag, {}, nodes)

\* parse_nodes' exit test
NodesBreak(s, p) == eof(s, p) \/ StartsWith(s, p, <<"<", "/">>)

\* A variant of NodeIsElement for comparison: every node is parsed as text.
NodeIsNeverElement(s, p) == FALSE

\* parse_node's dispatch
NodeIsElement(s, p) == PeekChar(s, p) = "<"

\* One iteration of parse_nodes' loop that ends in break: parse returns the
\* root, or parse_element goes on to the closing tag.
ParseNodesBreak ==
    /\ mode = "dom" /\ pc = "nodes"
    /\ LET ws == ConsumeWhile(input, pos, Whitespace) IN
       /\ ws.ok
       /\ NodesBreak(input, ws.pos)
       /\ pos' = ws.pos
       /\ IF Len(stack) = 1
          THEN /\ pc' = "done"
               /\ result' = ParseWrap(Top.nodes)
          ELSE /\ pc' = "close"
               /\ result' = result
       /\ stack' = stack
    /\ DomFrame

\* One iteration of parse_nodes' loop that parses a text node.
ParseText ==
    /\ mode = "dom" /\ pc = "nodes"
    /\ LET ws == ConsumeWhile(input, pos, Whitespace) IN
       IF ~ws.ok THEN DomPanic(ws.pos)
       ELSE /\ ~NodesBreak(input, ws.pos)
            /\ ~NodeIsElement(input, ws.pos)
            /\ LET data == ConsumeWhile(input, ws.pos, Chars \ {"<"}) IN
               IF ~data.ok THEN DomPanic(data.pos)
               ELSE /\ pos' = data.pos
                    /\ pc' = "nodes"
                    /\ stack' = SetTop([Top EXCEPT
                                          !.nodes = Append(@, text(data.str)),
                                          !.nodesStart = pos])
                    /\ result' = result
    /\ DomFrame

\* One iteration of parse_nodes' loop that enters parse_element: the "<" and
\* the tag name, up to the head of parse_attrs' loop.
ParseElementOpen ==
    /\ mode = "dom" /\ pc = "nodes"
    /\ LET ws == ConsumeWhile(input, pos, Whitespace) IN
       /\ ws.ok
       /\ ~NodesBreak(input, ws.pos)
       /\ NodeIsElement(input, ws.pos)
       /\ LET lt == Expect(input, ws.pos, "<")
              tag_name == ParseTagName(input, lt.pos)
          IN  IF ~lt.ok THEN DomPanic(lt.pos)
              ELSE IF ~tag_name.ok THEN DomPanic(tag_name.pos)
              ELSE /\ pos' = tag_name.pos
                   /\ pc' = "attrs"
                   /\ stack' = Append(SetTop([Top EXCEPT !.nodesStart = pos]),
                                      Frame(tag_name.str, {}))
                   /\ result' = result
    /\ DomFrame

\* One iteration of parse_attrs' loop; on break, the ">" of the opening tag
\* and the call of parse_nodes for the children.
ParseAttrs ==
    /\ mode = "dom" /\ pc = "attrs"
    /\ LET ws == ConsumeWhile(input, pos, Whitespace) IN
       IF ~ws.ok \/ ~Sliceable(input, ws.pos) \/ eof(input, ws.pos)
       THEN DomPanic(ws.pos)
       ELSE IF PeekChar(input, ws.pos) = ">"
       THEN LET gt == Expect(input, ws.pos, ">") IN
            IF ~gt.ok THEN DomPanic(gt.pos)
            ELSE /\ pos' = gt.pos
                 /\ pc' = "nodes"
                 /\ UNCHANGED <<stack, result>>
       ELSE LET a == ParseAttr(input, ws.pos) IN
            IF ~a.ok THEN DomPanic(a.pos)
            ELSE /\ pos' = a.pos
                 /\ pc' = "attrs"
                 /\ stack' = SetTop([Top EXCEPT
                                       !.attributes = MapInsert(@, a.name, a.value),
                                       !.attrsStart = pos])
                 /\ result' = result
    /\ DomFrame

\* parse_element from the closing tag on, and the push of the element onto
\* the `nodes` of the parse_nodes call it was parsed in.
ParseElementClose ==
    /\ mode = "dom" /\ pc = "close"
    /\ LET lt == Expect(input, pos, "<") IN
       IF ~lt.ok THEN DomPanic(lt.pos)
       ELSE LET slash == Expect(input, lt.pos, "/") IN
       IF ~slash.ok THEN DomPanic(slash.pos)
       ELSE LET name == ParseTagName(input, slash.pos) IN
       IF ~name.ok \/ name.str # Top.tag_name THEN DomPanic(name.pos)
       ELSE LET gt == Expect(input, name.pos, ">") IN
       IF ~gt.ok THEN DomPanic(gt.pos)
       ELSE LET node == elem(Top.tag_name, Top.attributes, Top.nodes)
                rest == SubSeq(stack, 1, Len(stack) - 1)
                parent == rest[Len(rest)]
            IN  /\ pos' = gt.pos
                /\ pc' = "nodes"
                /\ stack' = [rest EXCEPT ![Len(rest)] =
                                [parent EXCEPT !.nodes = Append(@, node)]]
                /\ result' = result
    /\ DomFrame

DomTokens ==
    { <<"<">>, <<">">>, <<"/">>, <<"a">>, <<" ">>, Multibyte,
      <<"<", "a", ">">>, <<"<", "/", "a", ">">>,
      <<"a", "=", "\"", "a", "\"">>, <<"=", "'", "'">> }

\* Parser { pos: 0, input: source }.parse_nodes() as called by parse
InitDom ==
    /\ mode = "dom"
    /\ TokenString(input, DomTokens)
    /\ pos = 0
    /\ pc = "nodes"
    /\ stack = <<Frame(<<>>, {})>>
    /\ rules = <<>> /\ selectors = <<>> /\ declarations = <<>>
    /\ selector = NONE
    /\ iterStart = NONE /\ colorAt = {}
    /\ root = NONE /\ stylesheet = NONE /\ matched = {}
    /\ result = NONE

NextDom ==
    \/ ParseNodesBreak
    \/ ParseText
    \/ ParseElementOpen
    \/ ParseAttrs
    \/ ParseElementClose

SpecDom == InitDom /\ [][NextDom]_vars

\* ---------------------------------------------------------------- css
Some(x) == <<x>>
None == <<>>

SimpleSelector(tag_name, id, class) ==
    [tag_name |-> tag_name, id |-> id, class |-> class]

Declaration(name, value) == [name |-> name, value |-> value]

Rule(sels, decls) == [selectors |-> sels, declarations |-> decls]

Keyword(s) == <<"Keyword", s>>
Length(f, unit) == <<"Length", f, unit>>
ColorValue(r, g, b, a) == <<"ColorValue", r, g, b, a>>

\* Selector::specificity: (id count, class count, tag count)
Specificity(sel) == <<Len(sel.id), Len(sel.class), Len(sel.tag_name)>>

\* Ord for (usize, usize, usize): lexicographic
SpecLess(a, b) ==
    \/ a[1] < b[1]
    \/ a[1] = b[1] /\ a[2] < b[2]
    \/ a[1] = b[1] /\ a[2] = b[2] /\ a[3] < b[3]

\* Where a stable sort puts x = <<key, item>> in the sorted `sorted`: before
\* the first element that the order puts strictly after it.
InsertByKey(sorted, x, descending) ==
    LET after == {i \in 1..Len(sorted) :
                     IF descending THEN SpecLess(sorted[i][1], x[1])
                                   ELSE SpecLess(x[1], sorted[i][1])}
        at == IF after = {} THEN Len(sorted) + 1
              ELSE CHOOSE i \in after : \A j \in after : i <= j
    IN  SubSeq(sorted, 1, at - 1) \o <<x>> \o SubSeq(sorted, at, Len(sorted))

\* slice::sort_by, which is stable, on <<key, item>> pairs
RECURSIVE StableSortFrom(_, _, _)
StableSortFrom(pairs, sorted, descending) ==
    IF pairs = <<>> THEN sorted
    ELSE StableSortFrom(Tail(pairs), InsertByKey(sorted, Head(pairs), descending),
                        descending)

StableSort(pairs, descending) == StableSortFrom(pairs, <<>>, descending)

\* A variant of SortSelectors for comparison: least specific first.
SortSelectorsAscending(sels) ==
    LET sorted == StableSort([i \in 1..Len(sels) |-> <<Specificity(sels[i]), sels[i]>>],
                             FALSE)
    IN  [i \in 1..Len(sels) |-> sorted[i][2]]

\* selectors.sort_by(|a, b| b.specificity().cmp(&a.specificity()))
SortSelectors(sels) ==
    LET sorted == StableSort([i \in 1..Len(sels) |-> <<Specificity(sels[i]), sels[i]>>],
                             TRUE)
    IN  [i \in 1..Len(sels) |-> sorted[i][2]]

\* parse_identifier
ParseIdentifier(s, p) == ConsumeWhile(s, p, IdentifierChars)

\* str::to_ascii_lowercase
ToAsciiLowercase(s) ==
    [i \in 1..Len(s) |-> CASE s[i] = "P" -> "p" [] s[i] = "X" -> "x" [] OTHER -> s[i]]

\* The value of a string of decimal digits
\* char::to_digit(10)
DigitValue(c) == 1

RECURSIVE DecimalValue(_)
DecimalValue(s) ==
    IF s = <<>> THEN 0
    ELSE 10 * DecimalValue(SubSeq(s, 1, Len(s) - 1)) + DigitValue(s[Len(s)])

\* str::parse::<f32> of what parse_float collects, digits and ".": the
\* number as <<integer part, fraction digits>>, or a failure.
ParseF32(s) ==
    LET dots == {i \in 1..Len(s) : s[i] = "."} IN
    IF s = <<>> \/ Cardinality(dots) > 1 \/ s = <<".">>
    THEN [ok |-> FALSE, value |-> <<0, <<>>>>]
    ELSE LET dot == IF dots = {} THEN Len(s) + 1 ELSE CHOOSE i \in dots : TRUE
         IN  [ok |-> TRUE,
              value |-> <<DecimalValue(SubSeq(s, 1, dot - 1)),
                          SubSeq(s, dot + 1, Len(s))>>]

\* parse_length: parse_float, then parse_unit
ParseLength(s, p) ==
    LET digits == ConsumeWhile(s, p, Digits \cup {"."}) IN
    IF ~digits.ok THEN [ok |-> FALSE, pos |-> digits.pos, value |-> None]
    ELSE LET f == ParseF32(digits.str) IN
    IF ~f.ok THEN [ok |-> FALSE, pos |-> digits.pos, value |-> None]
    ELSE LET unit == ParseIdentifier(s, digits.pos) IN
    IF ~unit.ok THEN [ok |-> FALSE, pos |-> unit.pos, value |-> None]
    ELSE LET u == ToAsciiLowercase(unit.str) IN
         IF u = <<"p", "x">> THEN [ok |-> TRUE, pos |-> unit.pos, value |-> Length(f.value, "Px")]
         ELSE IF u = <<"%">> THEN [ok |-> TRUE, pos |-> unit.pos, value |-> Length(f.value, "Percent")]
         ELSE [ok |-> FALSE, pos |-> unit.pos, value |-> None]

HexDigits == {"1", "a"}

\* char::to_digit(16)
HexDigitValue(c) == IF c = "1" THEN 1 ELSE 10

\* u8::from_str_radix(s, 16) of a slice of at most two bytes: a leading "+"
\* is taken as a sign, a "-" is not, and the rest must be hex digits.
FromStrRadix16(s) ==
    LET digits == IF s # <<>> /\ s[1] = "+" THEN Tail(s) ELSE s IN
    IF digits # <<>> /\ \A i \in 1..Len(digits) : digits[i] \in HexDigits
    THEN [ok |-> TRUE,
          value |-> IF Len(digits) = 1 THEN HexDigitValue(digits[1])
                    ELSE 16 * HexDigitValue(digits[1]) + HexDigitValue(digits[2])]
    ELSE [ok |-> FALSE, value |-> 0]

\* parse_hex_pair: the two bytes at pos are sliced (a panic when the slice
\* leaves the input or cuts a char), pos moves by two, the slice is parsed.
ParseHexPair(s, p) ==
    IF p + 2 > Len(s) \/ ~IsCharBoundary(s, p) \/ ~IsCharBoundary(s, p + 2)
    THEN [ok |-> FALSE, pos |-> p, value |-> 0]
    ELSE LET n == FromStrRadix16(SubSeq(s, p + 1, p + 2))
         IN  [ok |-> n.ok, pos |-> p + 2, value |-> n.value]

\* parse_color
ParseColor(s, p) ==
    LET hash == Expect(s, p, "#") IN
    IF ~hash.ok THEN [ok |-> FALSE, pos |-> hash.pos, value |-> None]
    ELSE LET r == ParseHexPair(s, hash.pos) IN
    IF ~r.ok THEN [ok |-> FALSE, pos |-> r.pos, value |-> None]
    ELSE LET g == ParseHexPair(s, r.pos) IN
    IF ~g.ok THEN [ok |-> FALSE, pos |-> g.pos, value |-> None]
    ELSE LET b == ParseHexPair(s, g.pos) IN
    IF ~b.ok THEN [ok |-> FALSE, pos |-> b.pos, value |-> None]
    ELSE [ok |-> TRUE, pos |-> b.pos, value |-> ColorValue(r.value, g.value, b.value, 255)]

\* parse_value
ParseValue(s, p) ==
    IF ~Sliceable(s, p) THEN [ok |-> FALSE, pos |-> p, value |-> None]
    ELSE IF PeekChar(s, p) \in Digits THEN ParseLength(s, p)
    ELSE IF PeekChar(s, p) = "#" THEN ParseColor(s, p)
    ELSE LET k == ParseIdentifier(s, p)
         IN  [ok |-> k.ok, pos |-> k.pos, value |-> Keyword(k.str)]

\* parse_declaration; `colors` holds the offset of the value when it is
\* handed to parse_color.
ParseDeclaration(s, p) ==
    LET fail(q) == [ok |-> FALSE, pos |-> q, decl |-> None, colors |-> {}]
        name == ParseIdentifier(s, p) IN
    IF ~name.ok THEN fail(name.pos)
    ELSE LET ws1 == ConsumeWhile(s, name.pos, Whitespace) IN
    IF ~ws1.ok THEN fail(ws1.pos)
    ELSE LET colon == Expect(s, ws1.pos, ":") IN
    IF ~colon.ok THEN fail(colon.pos)
    ELSE LET ws2 == ConsumeWhile(s, colon.pos, Whitespace) IN
    IF ~ws2.ok THEN fail(ws2.pos)
    ELSE LET value == ParseValue(s, ws2.pos)
             colors == IF Sliceable(s, ws2.pos) /\ PeekChar(s, ws2.pos) = "#"
                       THEN {ws2.pos} ELSE {} IN
    IF ~value.ok THEN [fail(value.pos) EXCEPT !.colors = colors]
    ELSE LET semi == Expect(s, value.pos, ";") IN
    IF ~semi.ok THEN [fail(semi.pos) EXCEPT !.colors = colors]
    ELSE [ok |-> TRUE, pos |-> semi.pos,
          decl |-> Declaration(name.str, value.value), colors |-> colors]

\* parse_declarations' exit test: self.next_char() == Some('}')
DeclarationsBreak(s, p) == PeekChar(s, p) = "}"

\* One iteration of parse_declarations' loop: brk when it ends the loop.
ParseDeclarationsIter(s, p) ==
    LET ws == ConsumeWhile(s, p, Whitespace) IN
    IF ~ws.ok \/ ~Sliceable(s, ws.pos)
    THEN [ok |-> FALSE, brk |-> FALSE, pos |-> ws.pos, decl |-> None, colors |-> {}]
    ELSE IF DeclarationsBreak(s, ws.pos)
    THEN LET brace == ConsumeChar(s, ws.pos)
         IN  [ok |-> brace.ok, brk |-> TRUE, pos |-> brace.pos, decl |-> None, colors |-> {}]
    ELSE [brk |-> FALSE] @@ ParseDeclaration(s, ws.pos)

\* parse_declarations run to its end from offset p: the declarations, or
\* PANIC.  Every iteration that neither ends the loop nor panics consumes
\* the ":" of a declaration, so the recursion ends.
RECURSIVE ParseDeclarationsFrom(_, _, _)
ParseDeclarationsFrom(s, p, decls) ==
    LET it == ParseDeclarationsIter(s, p) IN
    IF ~it.ok THEN [ok |-> FALSE, declarations |-> decls]
    ELSE IF it.brk THEN [ok |-> TRUE, declarations |-> decls]
    ELSE ParseDeclarationsFrom(s, it.pos, Append(decls, it.decl))

CssPanic(p) ==
    /\ pc' = PANIC
    /\ pos' = p
    /\ UNCHANGED <<rules, selectors, selector, declarations, iterStart, colorAt, result>>

CssFrame == UNCHANGED <<mode, input, stack, root, stylesheet, matched>>

\* One iteration of parse_rules' loop, up to the call of parse_selectors;
\* at end-of-input parse returns the StyleSheet.
ParseRules ==
    /\ mode = "css" /\ pc = "rules"
    /\ LET ws == ConsumeWhile(input, pos, Whitespace) IN
       IF ~ws.ok THEN CssPanic(ws.pos)
       ELSE IF eof(input, ws.pos)
       THEN /\ pc' = "done"
            /\ pos' = ws.pos
            /\ result' = [rules |-> rules]
            /\ UNCHANGED <<rules, selectors, selector, declarations, iterStart, colorAt>>
       ELSE /\ pc' = "selectors"
            /\ pos' = ws.pos
            /\ selectors' = <<>>
            /\ iterStart' = [iterStart EXCEPT !.rules = pos, !.selectors = -1]
            /\ UNCHANGED <<rules, selector, declarations, colorAt, result>>
    /\ CssFrame

\* The head of parse_selectors' loop: parse_simple_selector is called.
ParseSelectors ==
    /\ mode = "css" /\ pc = "selectors"
    /\ pc' = "simple"
    /\ selector' = SimpleSelector(None, None, <<>>)
    /\ iterStart' = [iterStart EXCEPT !.selectors = pos, !.simple = -1]
    /\ UNCHANGED <<pos, rules, selectors, declarations, colorAt, result>>
    /\ CssFrame

\* parse_simple_selector's loop goes on at offset p
SimpleSelectorGoesOn(s, p) ==
    /\ ~eof(s, p)
    /\ PeekChar(s, p) \in {"#", ".", "*"} \cup IdentifierChars

\* One iteration of parse_simple_selector's loop that takes a fragment.
ParseSimpleSelector ==
    /\ mode = "css" /\ pc = "simple"
    /\ IF ~Sliceable(input, pos) THEN CssPanic(pos)
       ELSE /\ SimpleSelectorGoesOn(input, pos)
            /\ LET c == PeekChar(input, pos)
                   mark == ConsumeChar(input, pos)
                   ident == ParseIdentifier(input, IF c \in {"#", "."} THEN mark.pos ELSE pos)
               IN  IF c \in {"#", ".", "*"} /\ ~mark.ok THEN CssPanic(mark.pos)
                   ELSE IF c # "*" /\ ~ident.ok THEN CssPanic(ident.pos)
                   ELSE /\ pos' = IF c = "*" THEN mark.pos ELSE ident.pos
                        /\ pc' = "simple"
                        /\ selector' =
                             CASE c = "#" -> [selector EXCEPT !.id = Some(ident.str)]
                               [] c = "." -> [selector EXCEPT !.class = Append(@, ident.str)]
                               [] c = "*" -> selector
                               [] OTHER -> [selector EXCEPT !.tag_name = Some(ident.str)]
                        /\ iterStart' = [iterStart EXCEPT !.simple = pos]
                        /\ UNCHANGED <<rules, selectors, declarations, colorAt, result>>
    /\ CssFrame

\* parse_simple_selector returns, and parse_selectors' iteration goes on:
\* the selector is pushed, and "," starts another iteration while "{" ends
\* the loop, sorts the list and enters parse_declarations.
ParseSelectorsNext ==
    /\ mode = "css" /\ pc = "simple"
    /\ Sliceable(input, pos)
    /\ ~SimpleSelectorGoesOn(input, pos)
    /\ \E pushed \in {Append(selectors, selector)},
          ws \in {ConsumeWhile(input, pos, Whitespace)} :
       IF ~ws.ok \/ ~Sliceable(input, ws.pos) THEN CssPanic(ws.pos)
       ELSE IF PeekChar(input, ws.pos) = ","
       THEN LET comma == ConsumeChar(input, ws.pos)
                ws2 == ConsumeWhile(input, comma.pos, Whitespace) IN
            IF ~comma.ok THEN CssPanic(comma.pos)
            ELSE IF ~ws2.ok THEN CssPanic(ws2.pos)
            ELSE /\ pos' = ws2.pos
                 /\ pc' = "selectors"
                 /\ selectors' = pushed
                 /\ UNCHANGED <<rules, selector, declarations, iterStart, colorAt, result>>
       ELSE IF PeekChar(input, ws.pos) = "{"
       THEN LET brace == ConsumeChar(input, ws.pos) IN
            IF ~brace.ok THEN CssPanic(brace.pos)
            ELSE /\ pos' = brace.pos
                 /\ pc' = "declarations"
                 /\ selectors' = SortSelectors(pushed)
                 /\ declarations' = <<>>
                 /\ iterStart' = [iterStart EXCEPT !.declarations = -1]
                 /\ UNCHANGED <<rules, selector, colorAt, result>>
       ELSE CssPanic(ws.pos)
    /\ CssFrame

\* One iteration of parse_declarations' loop; on break parse_rule returns
\* the Rule and parse_rules pushes it.
ParseDeclarations ==
    /\ mode = "css" /\ pc = "declarations"
    /\ \E it \in {ParseDeclarationsIter(input, pos)} :
       /\ pos' = it.pos
       /\ colorAt' = colorAt \cup it.colors
       /\ IF ~it.ok
          THEN /\ pc' = PANIC
               /\ UNCHANGED <<rules, declarations, iterStart>>
          ELSE IF it.brk
          THEN /\ pc' = "rules"
               /\ rules' = Append(rules, Rule(selectors, declarations))
               /\ UNCHANGED <<declarations, iterStart>>
          ELSE /\ pc' = "declarations"
               /\ declarations' = Append(declarations, it.decl)
               /\ iterStart' = [iterStart EXCEPT !.declarations = pos]
               /\ rules' = rules
       /\ UNCHANGED <<selectors, selector, result>>
    /\ CssFrame

NextCss ==
    \/ ParseRules
    \/ ParseSelectors
    \/ ParseSimpleSelector
    \/ ParseSelectorsNext
    \/ ParseDeclarations

\* Selector lists
SelectorTokens ==
    { <<"a">>, <<".", "k">>, <<"#", "i">>, <<"*">>, <<",">>, <<" ">>,
      <<"{", "}">>, Multibyte }

\* Declarations with keyword and length values
DeclarationTokens ==
    { <<"{", "a", ":">>, <<";", "}">>, <<";">>, <<"a">>, <<"1">>, <<".">>,
      <<"p", "x">>, <<"P", "X">>, <<"%">>, <<" ">>, Multibyte }

\* Declarations with color values
ColorTokens ==
    { <<"{", "a", ":", "#">>, <<"1", "a", "1", "a">>, <<"1", "a">>, <<"+", "1">>,
      <<"-", "1">>, <<"1">>, <<"g">>, <<";", "}">>, Multibyte }

\* `div, .a.b.c.d.e, #id {}` in this alphabet
CssExampleSelectors ==
    <<"a", ",", " ", ".", "a", ".", "g", ".", "i", ".", "k", ".", "x", ",", " ",
      "#", "i", " ", "{", "}">>

\* The stylesheets of the documentation's examples, in this alphabet:
\* `.a{color:#FF0000;}`, `.a{width: 10xx;}`, `.a{color:#12;}`, and two rules
\* one after the other.
CssExamples ==
    { CssExampleSelectors,
      <<".", "a", "{", "a", ":", "#", "a", "a", "1", "1", "1", "1", ";", "}">>,
      <<".", "a", "{", "a", ":", " ", "1", "1", "x", "x", ";", "}">>,
      <<".", "a", "{", "a", ":", "#", "1", "1", ";", "}">>,
      <<"a", ",", "*", "{", "a", ":", "a", ";", "}", " ", ".", "k", "{", "a", ":", "g", ";",
        " ", "k", ":", "1", ".", "1", "%", ";", "}">> }

\* Parser { pos: 0, input: source } as built by css::Parser::parse
InitCss ==
    /\ mode = "css"
    /\ \/ \E T \in {SelectorTokens, DeclarationTokens, ColorTokens} : TokenString(input, T)
       \/ input \in CssExamples
    /\ pos = 0
    /\ pc = "rules"
    /\ stack = <<>>
    /\ rules = <<>> /\ selectors = <<>> /\ declarations = <<>>
    /\ selector = SimpleSelector(None, None, <<>>)
    /\ iterStart = [rules |-> -1, selectors |-> -1, simple |-> -1, declarations |-> -1]
    /\ colorAt = {}
    /\ root = NONE /\ stylesheet = NONE /\ matched = {}
    /\ result = NONE

SpecCss == InitCss /\ [][NextCss]_vars

\* -------------------------------------------------------------- style
IdAttr == <<"i", "d">>
ClassAttr == <<"c", "l", "a", "s", "s">>
StyleAttr == <<"s", "t", "y", "l", "e">>

\* The pieces of s between the occurrences of sep, empty ones too
RECURSIVE SplitFrom(_, _, _)
SplitFrom(s, sep, piece) ==
    IF s = <<>> THEN {piece}
    ELSE IF Head(s) = sep THEN {piece} \cup SplitFrom(Tail(s), sep, <<>>)
    ELSE SplitFrom(Tail(s), sep, Append(piece, Head(s)))

\* ElementData::id: the `id` attribute, if any
ElemId(e) ==
    IF MapHas(e.attributes, IdAttr) THEN Some(MapGet(e.attributes, IdAttr)) ELSE None

\* ElementData::classes: the words of the `class` attribute
ElemClasses(e) ==
    IF MapHas(e.attributes, ClassAttr)
    THEN SplitFrom(MapGet(e.attributes, ClassAttr), " ", <<>>)
    ELSE {}

Elements(opt) == {opt[i] : i \in DOMAIN opt}

\* matches_simple_selector
MatchesSimpleSelector(e, sel) ==
    /\ ~\E name \in Elements(sel.tag_name) : e.tag_name # name
    /\ ~\E id \in Elements(sel.id) : ElemId(e) # Some(id)
    /\ ~\E class \in Elements(sel.class) : class \notin ElemClasses(e)

\* matches
Matches(e, sel) == MatchesSimpleSelector(e, sel)

\* A variant of MatchRule for comparison: the rule's first selector gives the specificity.
MatchRuleFirstSelector(e, sheet, r) ==
    LET sels == sheet.rules[r].selectors
    IN  IF \E i \in 1..Len(sels) : Matches(e, sels[i])
        THEN Some(<<Specificity(sels[1]), r>>)
        ELSE None

\* match_rule on the r-th rule of the stylesheet: the specificity of the
\* first selector that matches, with the reference to the rule.
MatchRule(e, sheet, r) ==
    LET sels == sheet.rules[r].selectors
        found == {i \in 1..Len(sels) : Matches(e, sels[i])}
    IN  IF found = {} THEN None
        ELSE Some(<<Specificity(sels[CHOOSE i \in found : \A j \in found : i <= j]), r>>)

\* matching_rules: filter_map over the rules in order
RECURSIVE MatchingRulesFrom(_, _, _)
MatchingRulesFrom(e, sheet, r) ==
    IF r > Len(sheet.rules) THEN <<>>
    ELSE MatchRule(e, sheet, r) \o MatchingRulesFrom(e, sheet, r + 1)

MatchingRules(e, sheet) == MatchingRulesFrom(e, sheet, 1)

\* values.insert(name, value) for each declaration in order
RECURSIVE InsertDeclarations(_, _)
InsertDeclarations(values, decls) ==
    IF decls = <<>> THEN values
    ELSE InsertDeclarations(MapInsert(values, Head(decls).name, Head(decls).value),
                            Tail(decls))

\* for (_, rule) in rules { for declaration in &rule.declarations { ... } }
RECURSIVE InsertRules(_, _, _)
InsertRules(values, sheet, ms) ==
    IF ms = <<>> THEN values
    ELSE InsertRules(InsertDeclarations(values, sheet.rules[Head(ms)[2]].declarations),
                     sheet, Tail(ms))

\* A variant of SortMatched for comparison: most specific first.
SortMatchedDescending(ms) == StableSort(ms, TRUE)

\* rules.sort_by(|&(a, _), (b, _)| a.cmp(&b))
SortMatched(ms) == StableSort(ms, FALSE)

\* CssParser { pos: 0, input: inline_styles }.parse_declarations()
InlineDeclarations(e) == ParseDeclarationsFrom(MapGet(e.attributes, StyleAttr), 0, <<>>)

\* specified_values panics: the parse of the `style` attribute does
SpecifiedValuesPanics(e) ==
    MapHas(e.attributes, StyleAttr) /\ ~InlineDeclarations(e).ok

\* specified_values, when it returns
SpecifiedValues(e, sheet) ==
    InsertDeclarations(InsertRules({}, sheet, SortMatched(MatchingRules(e, sheet))),
                       IF MapHas(e.attributes, StyleAttr)
                       THEN InlineDeclarations(e).declarations
                       ELSE <<>>)

\* A variant of StyledChildren for comparison: only element children are styled.
StyledChildrenElementsOnly(node) ==
    SelectSeq(node.children, LAMBDA c : c.node_type = "Element")

\* root.children.iter()
StyledChildren(node) == node.children

\* style_tree panics: specified_values does, for the node or below it
RECURSIVE StyleTreePanics(_)
StyleTreePanics(node) ==
    \/ \E i \in 1..Len(node.children) : StyleTreePanics(node.children[i])
    \/ node.node_type = "Element" /\ SpecifiedValuesPanics(node)

\* style_tree, when it returns
RECURSIVE StyleTree(_, _)
StyleTree(node, sheet) ==
    [children |-> [i \in 1..Len(StyledChildren(node)) |->
                      StyleTree(StyledChildren(node)[i], sheet)],
     node |-> node,
     specified_values |-> IF node.node_type = "Text" THEN {}
                          ELSE SpecifiedValues(node, sheet)]

\* The nodes of a tree
RECURSIVE NodesOf(_)
NodesOf(node) ==
    {node} \cup UNION {NodesOf(node.children[i]) : i \in 1..Len(node.children)}

ElementsOf(node) == {n \in NodesOf(node) : n.node_type = "Element"}

\* style_tree(&root, &stylesheet)
StyleTreeCall ==
    /\ mode = "style" /\ pc = "style"
    /\ IF StyleTreePanics(root)
       THEN /\ pc' = PANIC
            /\ UNCHANGED <<result, matched>>
       ELSE /\ pc' = "done"
            /\ result' = StyleTree(root, stylesheet)
            /\ matched' = {<<e, MatchingRules(e, stylesheet)>> : e \in ElementsOf(root)}
    /\ UNCHANGED <<mode, input, pos, stack, rules, selectors, selector, declarations,
                   iterStart, colorAt, root, stylesheet>>

NextStyle == StyleTreeCall

\* The sequence f[1] .. f[n]
RECURSIVE Listed(_, _)
Listed(f, n) == IF n = 0 THEN <<>> ELSE Append(Listed(f, n - 1), f[n])

MaxRules == 2

\* `a`, `.k.x` and `#i`: specificities (0,0,1), (0,2,0) and (1,0,0)
SelectorUniverse ==
    { SimpleSelector(Some(<<"a">>), None, <<>>),
      SimpleSelector(None, None, << <<"k">>, <<"x">> >>),
      SimpleSelector(None, Some(<<"i">>), <<>>) }

\* Selector lists as written in a stylesheet: one selector, or two different ones
WrittenSelectorLists ==
    {<<s>> : s \in SelectorUniverse} \cup
    {<<p[1], p[2]>> : p \in {q \in SelectorUniverse \X SelectorUniverse : q[1] # q[2]}}

\* `a:g;`, `k:g; a:x;` and `a:x; a:i;`
DeclarationLists ==
    { <<Declaration(<<"a">>, Keyword(<<"g">>))>>,
      <<Declaration(<<"k">>, Keyword(<<"g">>)), Declaration(<<"a">>, Keyword(<<"x">>))>>,
      <<Declaration(<<"a">>, Keyword(<<"x">>)), Declaration(<<"a">>, Keyword(<<"i">>))>> }

\* The rules parse_rule returns for them: parse_selectors has sorted the list
ParsedRules ==
    {Rule(SortSelectors(sl), dl) : sl \in WrittenSelectorLists, dl \in DeclarationLists}

\* `a:x;` and `a:x;}`
InlineUnbraced == <<"a", ":", "x", ";">>
InlineBraced == <<"a", ":", "x", ";", "}">>

AttributeSets ==
    { ids \cup classes :
        ids \in {{}, {<<IdAttr, <<"i">>>>}},
        classes \in {{}, {<<ClassAttr, <<"k">>>>}, {<<ClassAttr, <<"k", " ", "x">>>>}} }

PlainElements ==
    {elem(<<"a">>, attrs, <<>>) : attrs \in AttributeSets} \cup
    {elem(<<"p">>, {<<IdAttr, <<"i">>>>, <<ClassAttr, <<"k", " ", "x">>>>}, <<>>)}

StyledElements ==
    {elem(<<"a">>, {<<IdAttr, <<"i">>>>, <<StyleAttr, s>>}, <<>>) :
        s \in {InlineUnbraced, InlineBraced}}

TextNode == text(<<"a">>)

NestedTrees ==
    LET plain == elem(<<"a">>, {<<ClassAttr, <<"k", " ", "x">>>>}, <<TextNode>>)
        braced == elem(<<"a">>, {<<StyleAttr, InlineBraced>>}, <<>>)
        unbraced == elem(<<"a">>, {<<StyleAttr, InlineUnbraced>>}, <<>>)
    IN  { elem(<<"p">>, {}, <<TextNode, plain>>),
          elem(<<"p">>, {<<IdAttr, <<"i">>>>}, <<plain, TextNode, braced>>),
          elem(<<"p">>, {}, <<elem(<<"a">>, {}, <<plain, plain>>)>>),
          elem(<<"p">>, {}, <<plain, unbraced>>) }

Roots == PlainElements \cup StyledElements \cup {TextNode} \cup NestedTrees

\* style_tree called on a Node tree and a parsed StyleSheet
InitStyle ==
    /\ mode = "style"
    /\ root \in Roots
    /\ \E n \in 0..MaxRules : \E rs \in [1..n -> ParsedRules] :
          stylesheet = [rules |-> Listed(rs, n)]
    /\ input = <<>> /\ pos = 0
    /\ pc = "style"
    /\ stack = <<>>
    /\ rules = <<>> /\ selectors = <<>> /\ declarations = <<>>
    /\ selector = NONE
    /\ iterStart = NONE /\ colorAt = {}
    /\ matched = {}
    /\ result = NONE

SpecStyle == InitStyle /\ [][NextStyle]_vars

\* ------------------------------------------------------- both parsers
InitParsers == InitDom \/ InitCss

NextParsers == NextDom \/ NextCss

SpecParsers == InitParsers /\ [][NextParsers]_vars

Returned == pc = "done"

Stopped == pc \in {"done", PANIC}

\* ------------------------------------------------------------- claims

\* C3: when markup parse returns, a single parsed top-level node is the
\* result as it is, and zero or several are the children, in the order
\* parsed, of an element `html` with no attributes.
ParseReturnsSingleRoot ==
    (mode = "dom" /\ Returned) =>
        LET nodes == stack[1].nodes IN
        /\ Len(stack) = 1
        /\ Len(nodes) = 1 => result = nodes[1]
        /\ Len(nodes) # 1 =>
              /\ result.node_type = "Element"
              /\ result.tag_name = HtmlTag
              /\ result.attributes = {}
              /\ result.children = nodes

\* C3 witness: parse has returned the wrapper around two top-level nodes.
WitnessWrappedRoot ==
    /\ mode = "dom" /\ Returned
    /\ Len(stack[1].nodes) >= 2
    /\ result.tag_name = HtmlTag
    /\ result.children[1].node_type # result.children[2].node_type

\* C4: whenever markup parse returns a Node the cursor is at end-of-input.
ParseConsumesWholeInput ==
    (mode = "dom" /\ Returned) => pos = Len(input)

\* C5: the cursor of either parser is always at 0, at the input's length or
\* at the first byte of a char.
CursorOnCharBoundary ==
    mode \in {"dom", "css"} => IsCharBoundary(input, pos)

\* The position at the head of a loop is past the position at which the
\* loop's previous iteration began.
LoopsAdvance ==
    /\ (mode = "dom" /\ pc = "nodes" /\ Top.nodesStart # -1) => pos > Top.nodesStart
    /\ (mode = "dom" /\ pc = "attrs" /\ Top.attrsStart # -1) => pos > Top.attrsStart
    /\ (mode = "css" /\ pc = "rules" /\ iterStart.rules # -1) => pos > iterStart.rules
    /\ (mode = "css" /\ pc = "selectors" /\ iterStart.selectors # -1) =>
            pos > iterStart.selectors
    /\ (mode = "css" /\ pc = "simple" /\ iterStart.simple # -1) => pos > iterStart.simple
    /\ (mode = "css" /\ pc = "declarations" /\ iterStart.declarations # -1) =>
            pos > iterStart.declarations

\* What is left to do: the input not yet consumed, then the loops still to
\* be entered without consuming anything.
Rank(at) ==
    CASE at \in {"done", PANIC} -> 0
      [] at \in {"close", "simple", "declarations", "attrs"} -> 1
      [] at \in {"nodes", "selectors"} -> 2
      [] at = "rules" -> 3

Variant == 4 * (Len(input) - pos) + Rank(pc)

\* C10: every iteration of the node, attribute, rule, selector and
\* declaration loops that does not leave its loop moves the cursor forward;
\* every step of either parser brings it nearer to its end, so none loops
\* forever.
ParsersTerminate ==
    /\ []LoopsAdvance
    /\ [][Variant' < Variant /\ Variant' >= 0]_vars

\* C10 witness: the stylesheet parser has returned two rules, every one of
\* its loops having gone round at least once.
WitnessLoopsWentRound ==
    /\ mode = "css" /\ Returned
    /\ Len(result.rules) = 2
    /\ \A l \in DOMAIN iterStart : iterStart[l] # -1

\* The six bytes after the "#" at offset p are hexadecimal digits and the
\* byte after them is ";".
SixHexDigitsAt(s, p) ==
    /\ p + 8 <= Len(s)
    /\ \A i \in 2..7 : s[p + i] \in HexDigits
    /\ s[p + 8] = ";"

\* C6: the stylesheet parser returns a StyleSheet only if every declaration
\* value that starts with "#" is "#", six hexadecimal digits and ";".
ColorNeedsSixHexDigits ==
    (mode = "css" /\ Returned) => \A p \in colorAt : SixHexDigitsAt(input, p)

\* Specificity as the claim has it, written its own way.
IdCount(sel) == IF sel.id = None THEN 0 ELSE 1
TagCount(sel) == IF sel.tag_name = None THEN 0 ELSE 1
ClassCount(sel) == Cardinality(DOMAIN sel.class)

\* a is at least as specific as b: ids first, then classes, then tags.
AtLeastAsSpecific(a, b) ==
    LET ka == <<IdCount(a), ClassCount(a), TagCount(a)>>
        kb == <<IdCount(b), ClassCount(b), TagCount(b)>>
    IN  \/ ka = kb
        \/ \E i \in 1..3 : ka[i] > kb[i] /\ \A j \in 1..(i - 1) : ka[j] = kb[j]

\* C8: in every Rule the stylesheet parser returns, no selector is less
\* specific than one after it; `div, .a.b.c.d.e, #id` is stored as `#id`,
\* `.a.b.c.d.e`, `div`.
ReturnedSelectorsSorted ==
    (mode = "css" /\ Returned) =>
        /\ \A r \in 1..Len(result.rules) :
              LET sels == result.rules[r].selectors IN
              \A i, j \in 1..Len(sels) : i < j => AtLeastAsSpecific(sels[i], sels[j])
        /\ input = CssExampleSelectors =>
              /\ Len(result.rules) = 1
              /\ LET sels == result.rules[1].selectors IN
                 /\ Len(sels) = 3
                 /\ <<IdCount(sels[1]), ClassCount(sels[1]), TagCount(sels[1])>> = <<1, 0, 0>>
                 /\ <<IdCount(sels[2]), ClassCount(sels[2]), TagCount(sels[2])>> = <<0, 5, 0>>
                 /\ <<IdCount(sels[3]), ClassCount(sels[3]), TagCount(sels[3])>> = <<0, 0, 1>>

\* C8 witness: the example's list has been parsed, sorted and returned.
WitnessSelectorsReordered ==
    /\ mode = "css" /\ Returned
    /\ input = CssExampleSelectors
    /\ result.rules[1].selectors[1].id = Some(<<"i">>)
    /\ result.rules[1].selectors[3].tag_name = Some(<<"a">>)

\* The selector's conditions hold of the element: each of tag, id and
\* classes that the selector names is the element's.
Holds(e, sel) ==
    /\ sel.tag_name # None => sel.tag_name[1] = e.tag_name
    /\ sel.id # None => (MapHas(e.attributes, IdAttr) /\ MapGet(e.attributes, IdAttr) = sel.id[1])
    /\ \A i \in DOMAIN sel.class : sel.class[i] \in ElemClasses(e)

HoldingSelectors(e, rule) ==
    {i \in DOMAIN rule.selectors : Holds(e, rule.selectors[i])}

SpecKey(sel) == <<IdCount(sel), ClassCount(sel), TagCount(sel)>>

\* C9: a rule is in an element's match set once if one of its selectors
\* holds of the element and not at all otherwise, and the specificity kept
\* with it is that of the first selector that holds, which none of the
\* rule's selectors that hold exceeds.
MatchSetOfFirstMatching ==
    (mode = "style" /\ Returned) =>
        \A m \in matched : \A r \in DOMAIN stylesheet.rules :
            LET rule == stylesheet.rules[r]
                holding == HoldingSelectors(m[1], rule)
                entries == {k \in DOMAIN m[2] : m[2][k][2] = r}
            IN  IF holding = {} THEN entries = {}
                ELSE /\ Cardinality(entries) = 1
                     /\ \A k \in entries :
                           /\ \E i \in holding :
                                 /\ \A j \in holding : i <= j
                                 /\ m[2][k][1] = SpecKey(rule.selectors[i])
                           /\ \A j \in holding :
                                 \E i \in holding :
                                    /\ m[2][k][1] = SpecKey(rule.selectors[i])
                                    /\ AtLeastAsSpecific(rule.selectors[i], rule.selectors[j])

\* C9 witness: an element is matched by a rule of two selectors through
\* the second of them only.
WitnessSecondSelectorMatched ==
    /\ mode = "style" /\ Returned
    /\ \E m \in matched : \E r \in DOMAIN stylesheet.rules :
          /\ Len(stylesheet.rules[r].selectors) = 2
          /\ HoldingSelectors(m[1], stylesheet.rules[r]) = {2}
          /\ \E k \in DOMAIN m[2] : m[2][k][2] = r

\* The styled nodes of a styled tree
RECURSIVE StyledNodesOf(_)
StyledNodesOf(sn) ==
    {sn} \cup UNION {StyledNodesOf(sn.children[i]) : i \in 1..Len(sn.children)}

\* The most specific of the rule's selectors that hold of the element
RuleKey(e, rule) ==
    LET holding == HoldingSelectors(e, rule)
        best == CHOOSE i \in holding :
                   \A j \in holding : AtLeastAsSpecific(rule.selectors[i], rule.selectors[j])
    IN  SpecKey(rule.selectors[best])

Declares(rule, name) == \E i \in DOMAIN rule.declarations : rule.declarations[i].name = name

\* What the rule sets the property to: its last declaration of it
DeclaredValue(rule, name) ==
    LET at == {i \in DOMAIN rule.declarations : rule.declarations[i].name = name}
    IN  rule.declarations[CHOOSE i \in at : \A j \in at : j <= i].value

KeyAbove(a, b) ==
    \E i \in 1..3 : a[i] > b[i] /\ \A j \in 1..(i - 1) : a[j] = b[j]

PropertyNames(sheet) ==
    UNION {{sheet.rules[r].declarations[i].name : i \in DOMAIN sheet.rules[r].declarations} :
              r \in DOMAIN sheet.rules}

\* C1: for an element without a `style` attribute, a property is in the
\* PropertyMap iff a matching rule declares it, and its value is that of the
\* declaring matching rule of highest specificity, the last listed among
\* those of equal specificity.
CascadeHighestSpecificityWins ==
    (mode = "style" /\ Returned) =>
        \A sn \in StyledNodesOf(result) :
            (sn.node.node_type = "Element" /\ ~MapHas(sn.node.attributes, StyleAttr)) =>
                \A name \in PropertyNames(stylesheet) \cup MapKeys(sn.specified_values) :
                    LET declaring ==
                            {r \in DOMAIN stylesheet.rules :
                                /\ HoldingSelectors(sn.node, stylesheet.rules[r]) # {}
                                /\ Declares(stylesheet.rules[r], name)}
                    IN  /\ MapHas(sn.specified_values, name) <=> declaring # {}
                        /\ declaring # {} =>
                              \E w \in declaring :
                                  /\ \A r \in declaring \ {w} :
                                        LET kw == RuleKey(sn.node, stylesheet.rules[w])
                                            kr == RuleKey(sn.node, stylesheet.rules[r])
                                        IN  KeyAbove(kw, kr) \/ (kw = kr /\ r < w)
                                  /\ MapGet(sn.specified_values, name) =
                                        DeclaredValue(stylesheet.rules[w], name)

\* C1 witness: `#i {a:g;}` then `a {k:g; a:x;}` on `<a id="i">`: the first
\* rule gives `a`, the second gives `k`.
WitnessEarlierRuleWins ==
    /\ mode = "style" /\ Returned
    /\ root = elem(<<"a">>, {<<IdAttr, <<"i">>>>}, <<>>)
    /\ Len(stylesheet.rules) = 2
    /\ stylesheet.rules[1].selectors = <<SimpleSelector(None, Some(<<"i">>), <<>>)>>
    /\ stylesheet.rules[2].selectors = <<SimpleSelector(Some(<<"a">>), None, <<>>)>>
    /\ Len(stylesheet.rules[1].declarations) = 1
    /\ Len(stylesheet.rules[2].declarations) = 2
    /\ stylesheet.rules[2].declarations[1].name = <<"k">>
    /\ result.specified_values = {<<<<"a">>, Keyword(<<"g">>)>>, <<<<"k">>, Keyword(<<"g">>)>>}

\* C2: for an element whose `style` attribute is the declaration list
\* `a:x;`, with no braces around it, style_tree returns and the element's
\* PropertyMap maps `a` to `x`, whatever the stylesheet sets.
InlineStyleOverrides ==
    (/\ mode = "style" /\ Stopped
     /\ root.node_type = "Element"
     /\ MapHas(root.attributes, StyleAttr)
     /\ MapGet(root.attributes, StyleAttr) = InlineUnbraced)
        => /\ Returned
           /\ <<<<"a">>, Keyword(<<"x">>)>> \in result.specified_values

\* The styled tree has the shape of the tree it was made from.
RECURSIVE Mirrors(_, _)
Mirrors(sn, node) ==
    /\ sn.node = node
    /\ Len(sn.children) = Len(node.children)
    /\ \A i \in 1..Len(node.children) : Mirrors(sn.children[i], node.children[i])

\* C7: each StyledNode refers to the Node it was made from and its i-th
\* child is the styled form of that Node's i-th child.
StyledTreeMirrors ==
    (mode = "style" /\ Returned) => Mirrors(result, root)

\* C7 witness: a tree of three levels with a text node among an element's
\* children has been styled.
WitnessNestedTreeStyled ==
    /\ mode = "style" /\ Returned
    /\ Len(result.children) = 3
    /\ result.children[2].node.node_type = "Text"
    /\ Len(result.children[1].children) = 1
    /\ stylesheet.rules # <<>>

=============================================================================
